---- MODULE Spec2Model ----
(***************************************************************************)
(* A model of the solar-tracking backend: the per-device sequence buffer,  *)
(* the angle recommender, the recursive daily forecaster and the pipeline  *)
(* orchestrator with its store, actuator and HTTP handlers.                *)
(*                                                                         *)
(* Numbers are fixed-point integers: one unit is 10^-(ROUND_DIGITS+1), so   *)
(* that round(x, 3) is a real conversion and not the identity.             *)
(***************************************************************************)
EXTENDS Integers, Sequences, FiniteSets, TLC

VARIABLES
    use_firebase,   \* app.py: module flag, fixed once the process has started
    device_seq,     \* app.py: device_id -> deque(maxlen=SEQ_LEN)
    data_log,       \* app.py: length of data_log
    raw_store,      \* store: telemetry/raw/<device>, append only
    latest_store,   \* store: telemetry/latest/<device>
    pred_store,     \* store: telemetry/predictions/<device>/latest
    runs,           \* the background threads: run id -> run record
    http,           \* the HTTP response the step just taken returned, if any
    esp32,          \* the commands the actuator received, in order
    clock,          \* datetime.utcnow(), as a logical clock
    calls,          \* the number of POST /telemetry calls handled
    pushed,         \* history: every sample pushed to a device's buffer
    persisted,      \* history: the record a run last persisted for a device
    ra,             \* the angle recommender's call: inputs and result
    dfc,            \* the daily forecaster's call: inputs and result
    ens             \* the ensemble combiner's call: inputs and result

vars == <<use_firebase, device_seq, data_log, raw_store, latest_store,
          pred_store, runs, http, esp32, clock, calls, pushed, persisted, ra, dfc, ens>>

pipeVars == <<use_firebase, data_log, raw_store, latest_store, pred_store,
              runs, http, esp32, clock, calls, persisted>>

\* ------------------------------------------------------------- constants

SEQ_LEN == 24
ST_SEQ_LEN == 5
MIN_WINDOW == 5
FETCH_LIMIT == 24
HORIZON == 7
MAX_ANGLE == 90
ROUND_DIGITS == 3
MAX_LOG == 3000

\* ---------------------------------------------------------------- bounds

MaxPush == 26
MaxDfLen == 6
MaxHorizon == 7
MaxIngest == 2
MaxMemIngest == 5
MaxLive == 2
InitRaw == 4
MaxDays == 8
MaxEnsLen == 25

Devices == {"panel-01", "panel-02"}

\* One unit of the fixed-point numbers is one digit below the rounding.
UNIT == 10 * (10 ^ ROUND_DIGITS)
Num(x) == x * UNIT

Min2(a, b) == IF a < b THEN a ELSE b
Abs(a) == IF a < 0 THEN 0 - a ELSE a

\* round(x, 3): to the nearest multiple of 10 units, ties to even.
Round3(x) ==
    LET q == x \div 10
        r == x % 10
    IN  IF r < 5 THEN 10 * q
        ELSE IF r > 5 THEN 10 * (q + 1)
        ELSE IF q % 2 = 0 THEN 10 * q ELSE 10 * (q + 1)

\* dict.get(key, default) / Series.get(key, default)
Get(row, key, dflt) == IF key \in DOMAIN row THEN row[key] ELSE dflt

\* ------------------------------------------------ device sequence buffer

\* a list that is only ever appended to
DequeAppendNoEvict(q, x, n) == Append(q, x)

\* deque(maxlen=n).append(x)
DequeAppend(q, x, n) ==
    IF Len(q) >= n THEN Append(Tail(q), x) ELSE Append(q, x)

push_seq(seqs, device_id, rec) ==
    LET created == IF device_id \in DOMAIN seqs
                   THEN seqs
                   ELSE seqs @@ (device_id :> <<>>)
    IN  [created EXCEPT ![device_id] = DequeAppend(@, rec, SEQ_LEN)]

\* ------------------------------------------- short-term predictor, angle

\* scaler.feature_names_in_ of the short-term scaler (train_shortterm_lstm.py)
FEATURE_COLS == <<"ldr", "temp", "humidity", "panel_angle", "voltage", "current">>

IndexOf(cols, name) == CHOOSE i \in 1..Len(cols) : cols[i] = name

NFeat == Len(FEATURE_COLS)

\* df[FEATURE_COLS].astype(float).values, then pad with the first row or cut
\* to the last ST_SEQ_LEN rows
get_last_window(df) ==
    LET arr == [t \in 1..Len(df) |-> [f \in 1..NFeat |-> df[t][FEATURE_COLS[f]]]]
    IN  IF Len(arr) < ST_SEQ_LEN
        THEN [t \in 1..(ST_SEQ_LEN - Len(arr)) |-> arr[1]] \o arr
        ELSE SubSeq(arr, Len(arr) - ST_SEQ_LEN + 1, Len(arr))

\* scaler.transform on every row of every window: (x - mean) / scale
scale_window(m, w) ==
    [t \in 1..Len(w) |->
        [f \in 1..NFeat |-> (w[t][f] - m.mean[f]) \div m.scale[f]]]

scale_windows(m, windows) ==
    [i \in 1..Len(windows) |-> scale_window(m, windows[i])]

\* scaler.mean_[idx], scaler.scale_[idx] of the voltage feature
get_voltage_params(m) ==
    LET idx == IndexOf(FEATURE_COLS, "voltage")
    IN  [mean_v |-> m.mean[idx], std_v |-> m.scale[idx]]

\* model.predict on one scaled window: the trained network is an artifact
\* outside the repository, so it is one of a family of deterministic
\* functions of the whole scaled window.
ModelPredict(m, sw) ==
    LET T     == Len(sw)
        ai    == IndexOf(FEATURE_COLS, "panel_angle")
        vi    == IndexOf(FEATURE_COLS, "voltage")
        xa    == sw[T][ai] * m.scale[ai] + m.mean[ai]
        x1    == sw[1][ai] * m.scale[ai] + m.mean[ai]
        shape == CASE m.kind = "peak"    -> 0 - Abs(xa - m.A)
                   [] m.kind = "const"   -> m.A
                   [] m.kind = "plateau" ->
                        IF Abs(xa - m.A) <= m.B THEN 0 ELSE m.B - Abs(xa - m.A)
                   [] m.kind = "twin"    ->
                        0 - Min2(Abs(xa - m.A), Abs(xa - m.B))
                   [] m.kind = "rising"  -> xa
    IN  shape - m.wf * Abs(x1 - m.F) + sw[T][vi]

predict_voltage(m, scaled_window) ==
    LET p == get_voltage_params(m)
    IN  ModelPredict(m, scaled_window) * p.std_v + p.mean_v

\* np.argmax: a left-to-right scan that replaces the best only on a strictly
\* larger value
RECURSIVE ArgMaxLastIn(_, _, _)
ArgMaxLastIn(preds, lo, hi) ==
    IF lo = hi THEN lo
    ELSE LET mid   == (lo + hi) \div 2
             left  == ArgMaxLastIn(preds, lo, mid)
             right == ArgMaxLastIn(preds, mid + 1, hi)
         IN  IF preds[right] >= preds[left] THEN right ELSE left

ArgMaxLast(preds) == ArgMaxLastIn(preds, 1, Len(preds))

\* the best of preds[lo..hi]: a later value replaces an earlier one only when
\* it is strictly larger, so the first occurrence of the maximum is kept
RECURSIVE ArgMaxIn(_, _, _)
ArgMaxIn(preds, lo, hi) ==
    IF lo = hi THEN lo
    ELSE LET mid   == (lo + hi) \div 2
             left  == ArgMaxIn(preds, lo, mid)
             right == ArgMaxIn(preds, mid + 1, hi)
         IN  IF preds[right] > preds[left] THEN right ELSE left

ArgMax(preds) == ArgMaxIn(preds, 1, Len(preds))

\* np.array(list): the list as one array, every element computed
AsArray(list) == SubSeq(list, 1, Len(list))

\* w = last_window.copy(); w[-1, angle_idx] = a
CandidateWindow(last_window, angle_idx, a) ==
    [last_window EXCEPT ![Len(last_window)][angle_idx] = a]

\* The loop over the angles: the candidate windows it builds, and the
\* caller's array as the loop leaves it.
BuildWindows(last_window, angle_idx, angles) ==
    [last_window |-> last_window,
     windows     |-> AsArray([i \in 1..Len(angles) |->
                        CandidateWindow(last_window, angle_idx, angles[i])])]

recommend_angle(m, last_window, angle_idx) ==
    LET p       == get_voltage_params(m)
        angles  == [i \in 1..(MAX_ANGLE + 1) |-> Num(i - 1)]
        built   == BuildWindows(last_window, angle_idx, angles)
        scaled  == scale_windows(m, built.windows)
        preds   == AsArray([i \in 1..Len(scaled) |->
                      ModelPredict(m, scaled[i]) * p.std_v + p.mean_v])
        best    == ArgMax(preds)
    IN  [angle |-> angles[best] \div UNIT, pred |-> preds[best],
         last_window |-> built.last_window]

run_short_term_prediction(m, seq_df) ==
    LET last_window == get_last_window(seq_df)
        scaled_last == scale_windows(m, <<last_window>>)
        pred_voltage == predict_voltage(m, scaled_last[1])
        angle_idx   == IndexOf(FEATURE_COLS, "panel_angle")
        rec         == recommend_angle(m, last_window, angle_idx)
    IN  [predicted_voltage |-> Round3(pred_voltage),
         recommended_angle |-> rec.angle,
         pred_voltage_at_recommended_angle |-> Round3(rec.pred)]

\* ----------------------------------------------- recursive daily forecast

DAILY_FEATURE_COLS ==
    <<"avg_ldr", "max_ldr", "avg_temp", "max_temp", "avg_humidity",
      "avg_angle", "std_angle", "mean_voltage", "max_voltage",
      "sum_current", "mean_current", "samples">>

DailyFeats == {DAILY_FEATURE_COLS[i] : i \in 1..Len(DAILY_FEATURE_COLS)}

\* base = {...}: the snapshot built from the last row of the window
DailyBase(seq_df) ==
    LET last == seq_df[Len(seq_df)]
    IN  [avg_ldr      |-> Get(last, "ldr", Num(600)),
         max_ldr      |-> Get(last, "ldr", Num(600)),
         avg_temp     |-> Get(last, "temperature", Num(30)),
         max_temp     |-> Get(last, "temperature", Num(32)),
         avg_humidity |-> Get(last, "humidity", Num(50)),
         avg_angle    |-> Get(last, "panel_angle", Num(30)),
         std_angle    |-> Num(2),
         mean_voltage |-> Get(last, "voltage", Num(12)),
         max_voltage  |-> Get(last, "voltage", Num(12)),
         sum_current  |-> Get(last, "current", (12 * UNIT) \div 10),
         mean_current |-> Get(last, "current", (12 * UNIT) \div 10),
         samples      |-> Num(Len(seq_df))]

\* scaler.transform(X) of the daily scaler
DailyScale(m, base) ==
    [f \in DailyFeats |-> (base[f] - m.mean[f]) \div m.scale[f]]

\* rf.predict(Xs)[0]: the trained forest is an artifact outside the
\* repository, so it is one of a family of deterministic functions of the
\* whole scaled snapshot.
RfPredict(m, Xs) ==
    (m.a * Xs["mean_voltage"] + m.b * Xs["max_voltage"]) \div m.den
        + Xs["avg_ldr"] \div 100 + Xs["avg_temp"] \div 10
        + Xs["samples"] \div 1000 + m.c

DailyPredict(m, base) == RfPredict(m, DailyScale(m, base))

\* base["mean_voltage"] = pred_v only
FeedBackMeanOnly(base, pred_v) == [base EXCEPT !["mean_voltage"] = pred_v]

\* base["mean_voltage"] = round(pred_v, 3); base["max_voltage"] likewise
FeedBackRounded(base, pred_v) ==
    [base EXCEPT !["mean_voltage"] = Round3(pred_v),
                 !["max_voltage"] = Round3(pred_v)]

\* base["mean_voltage"] = pred_v; base["max_voltage"] = pred_v
FeedBack(base, pred_v) ==
    [base EXCEPT !["mean_voltage"] = pred_v, !["max_voltage"] = pred_v]

RECURSIVE DailyLoop(_, _, _, _, _)
DailyLoop(m, base, d, horizon, forecasts) ==
    IF d > horizon THEN forecasts
    ELSE LET pred_v == DailyPredict(m, base)
         IN  DailyLoop(m, FeedBack(base, pred_v), d + 1, horizon,
                       Append(forecasts,
                              [day |-> d,
                               predicted_voltage |-> Round3(pred_v)]))

\* seq_df.iloc[-1] raises on an empty frame
run_daily_forecast(m, seq_df, horizon) ==
    IF Len(seq_df) = 0
    THEN [raised |-> TRUE, forecasts |-> <<>>]
    ELSE [raised |-> FALSE,
          forecasts |-> DailyLoop(m, DailyBase(seq_df), 1, horizon, <<>>)]

\* ------------------------------------------------ the ensemble combiner

\* model.py: SEQ_LEN = int(os.environ.get("SEQ_LEN", 24))
ENS_SEQ_LEN == 24

\* the angle of the else branch: best_ang = int(30)
ENS_DEFAULT_ANGLE == 30

\* [ldr, temp, hum, angle, voltage] of one sample dict
EnsRow(s) ==
    <<Get(s, "ldr", Get(s, "LDR", 0)),
      Get(s, "temperature", Get(s, "temp", 0)),
      Get(s, "humidity", Get(s, "hum", 0)),
      Get(s, "panel_angle", Get(s, "angle", 0)),
      Get(s, "voltage", 0)>>

\* seq_arr: None (<<>>) when the device_seq argument is None, else the array of the rows
EnsSeqArr(dev_seq) ==
    IF dev_seq = <<>> THEN <<>>
    ELSE <<[i \in 1..Len(dev_seq[1]) |-> EnsRow(dev_seq[1][i])]>>

\* seq_arr.shape[0], where there is an array
EnsRowsOf(seq_arr) == IF seq_arr = <<>> THEN 0 ELSE Len(seq_arr[1])

\* arr[-n:]
LastRows(arr, n) == SubSeq(arr, Len(arr) - Min2(n, Len(arr)) + 1, Len(arr))

\* predict_sequence_lstm(model, seq): the trained network is an artifact
\* outside the repository, so it is a deterministic function of its input,
\* here of the illumination and the angle of the last of the rows it is given
predict_sequence_lstm(model, seq) ==
    model.bias + seq[Len(seq)][1] \div 100 - seq[Len(seq)][4] \div 1000

\* float(xgb_model.predict(flat)[0])
XgbModelPredict(model, flat) ==
    model.bias + flat[Len(flat)][5] \div 10 + flat[1][1] \div 1000

\* float(rf_model.predict(np.array([[ldr, temp, hum, angle]]))[0])
RfModelPredict(model, x) ==
    model.bias + x[1] \div 100
        - (model.wa * Abs(x[4] - model.peak)) \div 1000

\* preds and meta before any backend is tried
EnsStart == [preds |-> <<>>, models |-> <<>>, errors |-> {}]

\* the LSTM block: the guard, the call in its try, the except
TryLstm(env, lstm_model, seq_arr, acc) ==
    IF env.tf /\ lstm_model # <<>> /\ seq_arr # <<>>
          /\ EnsRowsOf(seq_arr) >= ENS_SEQ_LEN
    THEN IF lstm_model[1].raises
         THEN [acc EXCEPT !.errors = @ \cup {"lstm_error"}]
         ELSE LET seq_input ==
                      [i \in 1..ENS_SEQ_LEN |->
                          SubSeq(LastRows(seq_arr[1], ENS_SEQ_LEN)[i], 1, 4)]
                  p == predict_sequence_lstm(lstm_model[1], seq_input)
              IN  [acc EXCEPT
                     !.preds = Append(@, p),
                     !.models = Append(@, [name |-> "lstm", p |-> Round3(p)])]
    ELSE acc

\* the XGB block
TryXgb(env, xgb_model, seq_arr, acc) ==
    IF env.xgb /\ xgb_model # <<>> /\ seq_arr # <<>>
          /\ EnsRowsOf(seq_arr) >= ENS_SEQ_LEN
    THEN IF xgb_model[1].raises
         THEN [acc EXCEPT !.errors = @ \cup {"xgb_error"}]
         ELSE LET flat == LastRows(seq_arr[1], ENS_SEQ_LEN)
                  p == XgbModelPredict(xgb_model[1], flat)
              IN  [acc EXCEPT
                     !.preds = Append(@, p),
                     !.models = Append(@, [name |-> "xgboost",
                                           p |-> Round3(p)])]
    ELSE acc

\* the features the forest is asked about: the last row, or the defaults
EnsLast(seq_arr) ==
    IF EnsRowsOf(seq_arr) >= 1
    THEN seq_arr[1][Len(seq_arr[1])]
    ELSE <<Num(500), Num(25), Num(45), Num(30), 0>>

\* an except clause of the RF block that also drops what the others gave
TryRfDropping(rf_model, seq_arr, acc) ==
    IF rf_model # <<>>
    THEN IF rf_model[1].raises
         THEN [acc EXCEPT !.preds = <<>>, !.errors = @ \cup {"rf_error"}]
         ELSE LET p_rf == RfModelPredict(rf_model[1],
                                         SubSeq(EnsLast(seq_arr), 1, 4))
              IN  [acc EXCEPT
                     !.preds = Append(@, p_rf),
                     !.models = Append(@, [name |-> "rf",
                                           p |-> Round3(p_rf)])]
    ELSE acc

\* the RF block
TryRf(rf_model, seq_arr, acc) ==
    IF rf_model # <<>>
    THEN IF rf_model[1].raises
         THEN [acc EXCEPT !.errors = @ \cup {"rf_error"}]
         ELSE LET p_rf == RfModelPredict(rf_model[1],
                                         SubSeq(EnsLast(seq_arr), 1, 4))
              IN  [acc EXCEPT
                     !.preds = Append(@, p_rf),
                     !.models = Append(@, [name |-> "rf",
                                           p |-> Round3(p_rf)])]
    ELSE acc

RECURSIVE SumSeq(_)
SumSeq(xs) == IF xs = <<>> THEN 0 ELSE xs[1] + SumSeq(Tail(xs))

\* a mean that counts a backend that gave nothing as zero
NpMeanOfThree(preds) == [num |-> SumSeq(preds), den |-> 3]

\* np.mean(preds), as a fraction
NpMean(preds) == [num |-> SumSeq(preds), den |-> Len(preds)]

\* round(x, 3) of a fraction: the nearest multiple of 10 units, ties to even
RoundFrac3(x) ==
    LET t == 10 * x.den
        k == x.num \div t
        r == x.num % t
    IN  IF 2 * r < t THEN 10 * k
        ELSE IF 2 * r > t THEN 10 * (k + 1)
        ELSE IF k % 2 = 0 THEN 10 * k ELSE 10 * (k + 1)

\* the grid search over range(0, 91): v > best_v replaces the best, a call
\* that raises counts as -1e9 and replaces nothing
EnsBestAngle(rf_model, seq_arr) ==
    IF rf_model # <<>>
    THEN IF rf_model[1].raises THEN 0
         ELSE LET last == EnsLast(seq_arr)
                  vs == AsArray([i \in 1..(MAX_ANGLE + 1) |->
                           RfModelPredict(rf_model[1],
                              <<last[1], last[2], last[3], Num(i - 1)>>)])
              IN  ArgMax(vs) - 1
    ELSE ENS_DEFAULT_ANGLE

\* ensemble_predict: None is <<>>
ensemble_predict(env, dev_seq, rf_model, xgb_model, lstm_model) ==
    LET seq_arr == EnsSeqArr(dev_seq)
        acc == TryRf(rf_model, seq_arr,
                  TryXgb(env, xgb_model, seq_arr,
                     TryLstm(env, lstm_model, seq_arr, EnsStart)))
    IN  IF acc.preds = <<>> THEN <<>>
        ELSE <<[pred_15m |-> RoundFrac3(NpMean(acc.preds)),
                pred_30m |-> RoundFrac3(NpMean(acc.preds)),
                recommended_angle |-> EnsBestAngle(rf_model, seq_arr),
                meta |-> [models |-> acc.models, errors |-> acc.errors]]>>

\* ------------------------------------------------------------ the store

\* sorted(data.values(), key=lambda x: x.get("ts", "")): a stable insertion
\* sort on ts
RECURSIVE InsertByTs(_, _)
InsertByTs(sorted, rec) ==
    IF sorted = <<>> THEN <<rec>>
    ELSE IF Get(sorted[Len(sorted)], "ts", 0) <= Get(rec, "ts", 0)
         THEN Append(sorted, rec)
         ELSE Append(InsertByTs(SubSeq(sorted, 1, Len(sorted) - 1), rec),
                     sorted[Len(sorted)])

RECURSIVE SortByTs(_)
SortByTs(recs) ==
    IF recs = <<>> THEN <<>>
    ELSE InsertByTs(SortByTs(SubSeq(recs, 1, Len(recs) - 1)), recs[Len(recs)])

\* ref.order_by_key().limit_to_last(limit).get(): push keys are in push order
LimitToLast(recs, limit) ==
    IF Len(recs) <= limit THEN recs
    ELSE SubSeq(recs, Len(recs) - limit + 1, Len(recs))

\* the record built for each stored sample
Cleaned(device_id, rec) ==
    [ts          |-> Get(rec, "ts", 0),
     device_id   |-> device_id,
     voltage     |-> Get(rec, "voltage", 0),
     ldr         |-> Get(rec, "ldr", 0),
     temp        |-> Get(rec, "temp", Get(rec, "temperature", 0)),
     humidity    |-> Get(rec, "humidity", 0),
     panel_angle |-> Get(rec, "panel_angle", 0),
     current     |-> Get(rec, "current", 0)]

\* get_latest_sequence_from_firebase(device_id, limit): with the flag off, an
\* empty store path or a read that raises it returns []
get_latest_sequence_from_firebase(flag, store, device_id, limit, read_ok) ==
    IF ~flag THEN <<>>
    ELSE IF ~read_ok THEN <<>>
    ELSE LET data == LimitToLast(store[device_id], limit)
         IN  IF data = <<>> THEN <<>>
             ELSE LET records == SortByTs(data)
                  IN  [i \in 1..Len(records) |-> Cleaned(device_id, records[i])]

\* --------------------------------------------------------- the actuator

\* send_angle_to_esp32 with the except clause left out
send_angle_unguarded(angle, confidence, post_ok) ==
    [raised |-> ~post_ok,
     sent   |-> IF post_ok
                THEN <<[recommended_angle |-> angle, confidence |-> confidence]>>
                ELSE <<>>]

\* send_angle_to_esp32: requests.post inside try/except; never raises
send_angle_to_esp32(angle, confidence, post_ok) ==
    [raised |-> FALSE,
     sent   |-> IF post_ok
                THEN <<[recommended_angle |-> angle, confidence |-> confidence]>>
                ELSE <<>>]

\* confidence=0.85, in units
CONFIDENCE == (85 * UNIT) \div 100

\* --------------------------------------------------- the loaded artifacts

StScalerPlain == [mean |-> [f \in 1..NFeat |-> 0], scale |-> [f \in 1..NFeat |-> 1]]

StScalerFit ==
    [mean  |-> <<Num(500), Num(30), Num(50), Num(45), Num(12), Num(1)>>,
     scale |-> <<100, 10, 10, 1, 2, 1>>]

DailyScaler(mu_v, sc_v) ==
    [mean  |-> [f \in DailyFeats |->
                  IF f \in {"mean_voltage", "max_voltage"} THEN mu_v ELSE 0],
     scale |-> [f \in DailyFeats |->
                  IF f \in {"mean_voltage", "max_voltage"} THEN sc_v ELSE 1]]

\* the artifacts the pipeline process has loaded
PipeModel ==
    [kind |-> "peak", A |-> Num(37), B |-> 0, wf |-> 1, F |-> Num(50),
     mean |-> StScalerFit.mean, scale |-> StScalerFit.scale]

PipeDailyModel ==
    [a |-> 9, b |-> 0, den |-> 10, c |-> 7,
     mean |-> DailyScaler(0, 1).mean, scale |-> DailyScaler(0, 1).scale]

\* ------------------------------------------------------------- ingestion

Required == {"voltage", "ldr", "humidity", "panel_angle"}

\* telemetry(): rec = {...}. payload["k"] raises KeyError on a missing key,
\* float(None) raises TypeError.
ParsePayload(payload, now) ==
    IF ~(Required \subseteq DOMAIN payload)
    THEN [raised |-> TRUE, rec |-> <<>>]
    ELSE IF ~("temp" \in DOMAIN payload \/ "temperature" \in DOMAIN payload)
    THEN [raised |-> TRUE, rec |-> <<>>]
    ELSE [raised |-> FALSE,
          rec |-> <<[ts          |-> now,
                     device_id   |-> Get(payload, "device_id", "panel-01"),
                     voltage     |-> payload["voltage"],
                     ldr         |-> payload["ldr"],
                     temp        |-> Get(payload, "temp",
                                         Get(payload, "temperature", 0)),
                     humidity    |-> payload["humidity"],
                     panel_angle |-> payload["panel_angle"],
                     current     |-> Get(payload, "current",
                                         Get(payload, "cur", 0))]>>]

\* append_log: data_log grows to MAX_LOG entries and then drops its oldest
append_log(n) == IF n + 1 > MAX_LOG THEN n ELSE n + 1

BasePayload ==
    [voltage |-> Num(12), ldr |-> Num(600), humidity |-> Num(50),
     panel_angle |-> Num(30)]

With(f, k, v) == [x \in DOMAIN f \cup {k} |-> IF x = k THEN v ELSE f[x]]

\* The payloads a device posts: complete ones for either device, one with the
\* fallback keys and no device_id, one with neither temperature nor current.
Payloads ==
    { With(With(With(BasePayload, "temp", Num(30)), "current", Num(1)),
           "device_id", "panel-01"),
      With(With(With(BasePayload, "temp", Num(31)), "current", Num(1)),
           "device_id", "panel-02"),
      With(With(BasePayload, "temperature", Num(29)), "cur", Num(2)),
      BasePayload }

NewRun(device_id) ==
    [device_id |-> device_id, pc |-> "FETCH_WINDOW", steps |-> <<>>,
     seq_df |-> <<>>, mem_len |-> 0, short_term |-> <<>>, act |-> "none",
     prediction |-> <<>>, errors |-> <<>>]

Terminal == {"DONE", "FAILED", "NOT_ENOUGH_DATA"}

NoResponse ==
    [op |-> "none", status |-> "ok", cause |-> "none", keys |-> {},
     device |-> "panel-01", h |-> 0, body |-> <<>>]

Live == {r \in 1..Len(runs) : runs[r].pc \notin Terminal}

NoLatest == [sample |-> <<>>, prediction |-> <<>>]

\* telemetry(): the handler of POST /telemetry. store_fail names the store
\* write that raises, if any.
telemetry(payload, store_fail) ==
    LET now       == clock + 1
        parsed    == ParsePayload(payload, now)
        device_id == Get(payload, "device_id", "panel-01")
    IN  /\ calls' = calls + 1
        /\ Cardinality(Live) < MaxLive
        /\ store_fail \in (IF use_firebase THEN {"none", "raw", "latest"}
                           ELSE {"none"})
        /\ clock' = now
        /\ IF parsed.raised
           THEN /\ store_fail = "none"
                /\ http' = [op |-> "telemetry", status |-> "error",
                            cause |-> "payload", keys |-> DOMAIN payload,
                            device |-> device_id, h |-> 0, body |-> <<>>]
                /\ UNCHANGED <<data_log, device_seq, pushed, raw_store,
                               latest_store, runs>>
           ELSE LET rec == parsed.rec[1]
                IN  /\ data_log' = append_log(data_log)
                    /\ device_seq' = push_seq(device_seq, device_id, rec)
                    /\ pushed' = [pushed EXCEPT ![device_id] = Append(@, rec)]
                    /\ raw_store' =
                         IF use_firebase /\ store_fail # "raw"
                         THEN [raw_store EXCEPT ![device_id] = Append(@, rec)]
                         ELSE raw_store
                    /\ latest_store' =
                         IF use_firebase /\ store_fail = "none"
                         THEN [latest_store EXCEPT ![device_id] =
                                 [sample |-> <<rec>>, prediction |-> <<>>]]
                         ELSE latest_store
                    /\ runs' = IF store_fail = "none"
                               THEN Append(runs, NewRun(device_id))
                               ELSE runs
                    /\ http' = [op |-> "telemetry",
                                status |-> IF store_fail = "none"
                                           THEN "ok" ELSE "error",
                                cause |-> IF store_fail = "none"
                                          THEN "none" ELSE "store",
                                keys |-> DOMAIN payload,
                                device |-> device_id, h |-> 0, body |-> <<>>]
        /\ UNCHANGED <<use_firebase, pred_store, esp32, persisted, ra, dfc, ens>>

\* POST /telemetry, while the store is in use or not
Telemetry(payload, store_fail) ==
    /\ calls < MaxIngest
    /\ telemetry(payload, store_fail)

\* POST /telemetry of a process that runs without the store
TelemetryMem(payload) ==
    /\ calls < MaxMemIngest
    /\ telemetry(payload, "none")

\* ----------------------------------------------------------- the pipeline

\* if len(seq) <= 5: return
AfterFetchOffByOne(seq) ==
    IF Len(seq) <= MIN_WINDOW THEN "NOT_ENOUGH_DATA" ELSE "PREDICT_SHORT_TERM"

\* if len(seq) < 5: return
AfterFetch(seq) ==
    IF Len(seq) < MIN_WINDOW THEN "NOT_ENOUGH_DATA" ELSE "PREDICT_SHORT_TERM"

\* an except clause that logs and lets the run count as finished
OnExceptionDone(step) == "DONE"

\* except Exception as e: print(...)  -- the run ends
OnException(step) == "FAILED"

MemLen(device_id) ==
    IF device_id \in DOMAIN device_seq THEN Len(device_seq[device_id]) ELSE 0

\* seq = get_latest_sequence_from_firebase(device_id, limit=24) and the
\* length test
Fetch(r, read_ok) ==
    LET run == runs[r]
        seq == get_latest_sequence_from_firebase(
                   use_firebase, raw_store, run.device_id, FETCH_LIMIT, read_ok)
    IN  /\ run.pc = "FETCH_WINDOW"
        /\ use_firebase \/ read_ok
        /\ runs' = [runs EXCEPT ![r] =
                      [run EXCEPT !.pc = AfterFetch(seq),
                                  !.steps = Append(@, "FETCH_WINDOW"),
                                  !.errors = IF read_ok THEN @
                                             ELSE Append(@, "FETCH_WINDOW"),
                                  !.seq_df = seq,
                                  !.mem_len = MemLen(run.device_id)]]
        /\ http' = NoResponse
        /\ UNCHANGED <<use_firebase, device_seq, data_log, raw_store,
                       latest_store, pred_store, esp32, clock, calls,
                       pushed, ra, dfc, ens,
                       persisted>>

\* short_term = run_short_term_prediction(seq_df)
PredictShortTerm(r, ok) ==
    LET run == runs[r]
    IN  /\ run.pc = "PREDICT_SHORT_TERM"
        /\ runs' = [runs EXCEPT ![r] =
                      IF ok
                      THEN [run EXCEPT
                              !.pc = "ACTUATE",
                              !.steps = Append(@, "PREDICT_SHORT_TERM"),
                              !.short_term =
                                 <<run_short_term_prediction(PipeModel,
                                                             run.seq_df)>>]
                      ELSE [run EXCEPT
                              !.pc = OnException("PREDICT_SHORT_TERM"),
                              !.steps = Append(@, "PREDICT_SHORT_TERM"),
                              !.errors = Append(@, "PREDICT_SHORT_TERM")]]
        /\ http' = NoResponse
        /\ UNCHANGED <<use_firebase, device_seq, data_log, raw_store,
                       latest_store, pred_store, esp32, clock, calls,
                       pushed, ra, dfc, ens,
                       persisted>>

\* send_angle_to_esp32(short_term["recommended_angle"], confidence=0.85)
Actuate(r, post_ok) ==
    LET run == runs[r]
        out == send_angle_to_esp32(run.short_term[1].recommended_angle,
                                   CONFIDENCE, post_ok)
    IN  /\ run.pc = "ACTUATE"
        /\ esp32' = esp32 \o [i \in 1..Len(out.sent) |->
                                [run |-> r, command |-> out.sent[i]]]
        /\ runs' = [runs EXCEPT ![r] =
                      [run EXCEPT
                         !.pc = IF out.raised THEN OnException("ACTUATE")
                                ELSE "FORECAST_DAILY",
                         !.steps = Append(@, "ACTUATE"),
                         !.errors = IF post_ok THEN @ ELSE Append(@, "ACTUATE"),
                         !.act = IF out.sent = <<>> THEN "failed" ELSE "sent"]]
        /\ http' = NoResponse
        /\ UNCHANGED <<use_firebase, device_seq, data_log, raw_store,
                       latest_store, pred_store, clock, calls, pushed,
                       ra, dfc, ens,
                       persisted>>

\* voltage = item.get("voltage") or item.get("predicted_voltage"); the date
\* is today plus i + 1 days (i from 0), here the number of days after today
DailyItem(i, item) ==
    [date    |-> i,
     voltage |-> IF "voltage" \in DOMAIN item /\ item["voltage"] # 0
                 THEN item["voltage"] ELSE item["predicted_voltage"]]

BuildPrediction(device_id, short_term, raw_daily, now) ==
    [ts             |-> now,
     device_id      |-> device_id,
     model          |-> "lstm_daily_v1",
     short_term     |->
        [predicted_voltage |-> short_term.predicted_voltage,
         recommended_angle |-> Num(short_term.recommended_angle),
         pred_voltage_at_recommended_angle |->
             short_term.pred_voltage_at_recommended_angle],
     daily_forecast |-> [i \in 1..Len(raw_daily) |-> DailyItem(i, raw_daily[i])]]

\* raw_daily = run_daily_forecast(seq_df, horizon=7), the loop over it and
\* prediction = {...}
ForecastDaily(r, ok) ==
    LET run == runs[r]
        raw == run_daily_forecast(PipeDailyModel, run.seq_df, HORIZON)
    IN  /\ run.pc = "FORECAST_DAILY"
        /\ IF ok /\ ~raw.raised
           THEN /\ clock' = clock + 1
                /\ runs' = [runs EXCEPT ![r] =
                     [run EXCEPT
                        !.pc = "PERSIST",
                        !.steps = Append(@, "FORECAST_DAILY"),
                        !.prediction =
                           <<BuildPrediction(run.device_id, run.short_term[1],
                                             raw.forecasts, clock + 1)>>]]
           ELSE /\ clock' = clock
                /\ runs' = [runs EXCEPT ![r] =
                     [run EXCEPT
                        !.pc = OnException("FORECAST_DAILY"),
                        !.steps = Append(@, "FORECAST_DAILY"),
                        !.errors = Append(@, "FORECAST_DAILY")]]
        /\ http' = NoResponse
        /\ UNCHANGED <<use_firebase, device_seq, data_log, raw_store,
                       latest_store, pred_store, esp32, calls, pushed,
                       ra, dfc, ens,
                       persisted>>

\* a persist step that keeps the record with the newer timestamp
PersistPredictionKeepNewest(r, ok) ==
    LET run == runs[r]
        d == run.device_id
        newer == \/ pred_store[d] = <<>>
                 \/ pred_store[d][1].ts < run.prediction[1].ts
    IN  /\ run.pc = "PERSIST"
        /\ use_firebase \/ ok
        /\ pred_store' =
             IF use_firebase /\ ok /\ newer
             THEN [pred_store EXCEPT ![d] = run.prediction]
             ELSE pred_store
        /\ persisted' =
             IF use_firebase /\ ok /\ newer
             THEN [persisted EXCEPT ![d] = run.prediction]
             ELSE persisted
        /\ runs' = [runs EXCEPT ![r] =
                      [run EXCEPT
                         !.pc = IF ~use_firebase THEN "DONE"
                                ELSE IF ok THEN "PERSIST_LATEST"
                                ELSE OnException("PERSIST"),
                         !.steps = Append(@, "PERSIST"),
                         !.errors = IF ok THEN @ ELSE Append(@, "PERSIST")]]
        /\ http' = NoResponse
        /\ UNCHANGED <<use_firebase, device_seq, data_log, raw_store,
                       latest_store, esp32, clock, calls, pushed, ra,
                       dfc, ens>>

\* if use_firebase: db.reference(PREDICTIONS_BASE/<device>/latest).set(...)
PersistPrediction(r, ok) ==
    LET run == runs[r]
    IN  /\ run.pc = "PERSIST"
        /\ use_firebase \/ ok
        /\ pred_store' =
             IF use_firebase /\ ok
             THEN [pred_store EXCEPT ![run.device_id] = run.prediction]
             ELSE pred_store
        /\ persisted' =
             IF use_firebase /\ ok
             THEN [persisted EXCEPT ![run.device_id] = run.prediction]
             ELSE persisted
        /\ runs' = [runs EXCEPT ![r] =
                      [run EXCEPT
                         !.pc = IF ~use_firebase THEN "DONE"
                                ELSE IF ok THEN "PERSIST_LATEST"
                                ELSE OnException("PERSIST"),
                         !.steps = Append(@, "PERSIST"),
                         !.errors = IF ok THEN @ ELSE Append(@, "PERSIST")]]
        /\ http' = NoResponse
        /\ UNCHANGED <<use_firebase, device_seq, data_log, raw_store,
                       latest_store, esp32, clock, calls, pushed, ra,
                       dfc, ens>>

\* db.reference(LATEST_BASE/<device>/prediction).set(prediction)
PersistLatest(r, ok) ==
    LET run == runs[r]
    IN  /\ run.pc = "PERSIST_LATEST"
        /\ latest_store' =
             IF ok
             THEN [latest_store EXCEPT ![run.device_id].prediction =
                                           run.prediction]
             ELSE latest_store
        /\ runs' = [runs EXCEPT ![r] =
                      [run EXCEPT !.pc = IF ok THEN "DONE"
                                         ELSE OnException("PERSIST"),
                                  !.errors = IF ok THEN @
                                             ELSE Append(@, "PERSIST")]]
        /\ http' = NoResponse
        /\ UNCHANGED <<use_firebase, device_seq, data_log, raw_store,
                       pred_store, esp32, clock, calls, pushed, ra, dfc, ens,
                       persisted>>

\* ------------------------------------------------------- the forecast API

\* seq[:n]
PySliceTo(seq, n) ==
    IF n >= 0 THEN SubSeq(seq, 1, Min2(n, Len(seq)))
    ELSE SubSeq(seq, 1, Len(seq) + n)

\* forecast() without the [:days]
forecast_untruncated(flag, store, device_id, days, read_ok) ==
    IF flag /\ ~read_ok THEN [status |-> "error", body |-> <<>>]
    ELSE IF flag /\ store[device_id] # <<>>
    THEN [status |-> "ok", body |-> store[device_id][1]["daily_forecast"]]
    ELSE [status |-> "ok", body |-> <<>>]

\* forecast(): the body of GET /forecast?device=..&h=..
forecast(flag, store, device_id, days, read_ok) ==
    IF flag
    THEN IF ~read_ok
         THEN [status |-> "error", body |-> <<>>]
         ELSE LET pred == store[device_id]
              IN  IF pred # <<>> /\ "daily_forecast" \in DOMAIN pred[1]
                  THEN [status |-> "ok",
                        body |-> PySliceTo(pred[1]["daily_forecast"], days)]
                  ELSE [status |-> "ok", body |-> <<>>]
    ELSE [status |-> "ok", body |-> <<>>]

Forecast(device_id, days, read_ok) ==
    LET out == forecast(use_firebase, pred_store, device_id, days, read_ok)
    IN  /\ use_firebase \/ read_ok
        /\ http' = [op |-> "forecast", status |-> out.status,
                    cause |-> IF out.status = "ok" THEN "none" ELSE "store",
                    keys |-> {}, device |-> device_id, h |-> days,
                    body |-> out.body]
        /\ UNCHANGED <<use_firebase, device_seq, data_log, raw_store,
                       latest_store, pred_store, runs, esp32, clock, calls,
                       pushed, ra, dfc, ens,
                       persisted>>

\* ------------------------------------------------------- specification

Idle == [pc |-> "idle"]

\* the day counts a client asks for: none, fewer and more than the forecast
\* holds
QueryDays == {0, 3, MaxDays}

\* What an earlier process left under telemetry/raw/<device>
SeedSample(device_id, i) ==
    [ts |-> i - InitRaw, device_id |-> device_id, voltage |-> Num(11),
     ldr |-> Num(600), temp |-> Num(30), humidity |-> Num(50),
     panel_angle |-> Num(30), current |-> Num(1)]

EmptyRaw == [d \in Devices |-> <<>>]

SeededRaw ==
    [d \in Devices |->
        IF d = "panel-01" THEN [i \in 1..InitRaw |-> SeedSample(d, i)]
        ELSE <<>>]

\* the module's state once app.py has been imported
InitProcess ==
    /\ use_firebase \in BOOLEAN
    /\ device_seq = [d \in {} |-> <<>>]
    /\ data_log = 0
    /\ raw_store \in (IF use_firebase THEN {EmptyRaw, SeededRaw} ELSE {EmptyRaw})
    /\ latest_store = [d \in Devices |-> NoLatest]
    /\ pred_store = [d \in Devices |-> <<>>]
    /\ runs = <<>>
    /\ http = NoResponse
    /\ esp32 = <<>>
    /\ clock = 0
    /\ calls = 0
    /\ pushed = [d \in Devices |-> <<>>]
    /\ persisted = [d \in Devices |-> <<>>]

Init ==
    /\ InitProcess
    /\ ra = Idle
    /\ dfc = Idle
    /\ ens = Idle

Next ==
    \/ \E payload \in Payloads, store_fail \in {"none", "raw", "latest"} :
          Telemetry(payload, store_fail)
    \/ \E r \in 1..Len(runs), ok \in BOOLEAN : Fetch(r, ok)
    \/ \E r \in 1..Len(runs), ok \in BOOLEAN : PredictShortTerm(r, ok)
    \/ \E r \in 1..Len(runs), ok \in BOOLEAN : Actuate(r, ok)
    \/ \E r \in 1..Len(runs), ok \in BOOLEAN : ForecastDaily(r, ok)
    \/ \E r \in 1..Len(runs), ok \in BOOLEAN : PersistPrediction(r, ok)
    \/ \E r \in 1..Len(runs), ok \in BOOLEAN : PersistLatest(r, ok)

\* Ingestion and the pipeline runs it starts
Spec == Init /\ [][Next]_vars

NextQuery ==
    \/ Next
    \/ \E d \in Devices, h \in QueryDays, ok \in BOOLEAN :
          Forecast(d, h, ok)

\* Ingestion, the pipeline runs and the forecast queries of clients
SpecQuery == Init /\ [][NextQuery]_vars

\* A process that started without the store: use_firebase stays False, and
\* every run ends in the fetch.
InitMem == Init /\ ~use_firebase

NextMem ==
    \/ \E payload \in Payloads : TelemetryMem(payload)
    \/ \E r \in 1..Len(runs) : Fetch(r, TRUE)

SpecMem == InitMem /\ [][NextMem]_vars

\* ------------------------------------ the sequence buffer on its own

InitBuf ==
    /\ Init
    /\ ~use_firebase

\* the process at rest, for a call of one of its functions on its own
Quiet ==
    /\ InitProcess
    /\ ~use_firebase

\* push_seq(device_id, rec) for the n-th sample of a device
Push(device_id) ==
    LET rec == [device_id |-> device_id, n |-> Len(pushed[device_id]) + 1]
    IN  /\ Len(pushed[device_id]) < MaxPush
        /\ device_seq' = push_seq(device_seq, device_id, rec)
        /\ pushed' = [pushed EXCEPT ![device_id] = Append(@, rec)]
        /\ UNCHANGED <<pipeVars, ra, dfc, ens>>

NextBuf == \E d \in Devices : Push(d)

SpecBuf == InitBuf /\ [][NextBuf]_vars

\* ------------------------------------ the angle recommender on its own

BaseRow ==
    [ldr |-> Num(600), temp |-> Num(30), humidity |-> Num(45),
     panel_angle |-> Num(25), voltage |-> Num(12), current |-> Num(1)]

\* Frames shorter and longer than the window, whose rows differ in the angle
\* of the first and of the last row and in the voltage of the last row
StFrames ==
    { [t \in 1..n |->
         IF t = n
         THEN [BaseRow EXCEPT !.panel_angle = last_a, !.voltage = last_v]
         ELSE IF t = 1 THEN [BaseRow EXCEPT !.panel_angle = first_a]
         ELSE BaseRow] :
      n \in {1, ST_SEQ_LEN - 1, MaxDfLen}, first_a \in {Num(0), Num(50)},
      last_a \in {Num(25), Num(90)}, last_v \in {Num(11), Num(12)} }

StScalers == {StScalerPlain, StScalerFit}

StModels ==
    { [kind |-> k, A |-> a, B |-> b, wf |-> wf, F |-> Num(50),
       mean |-> sc.mean, scale |-> sc.scale] :
      k \in {"peak", "const", "plateau", "twin", "rising"},
      a \in {Num(0), Num(37), Num(90)}, b \in {Num(10), Num(70)},
      wf \in {0, 2}, sc \in StScalers }

InitAngle ==
    /\ Quiet
    /\ dfc = Idle
    /\ ens = Idle
    /\ \E m \in StModels, df \in StFrames :
          ra = [pc |-> "call", model |-> m, df |-> df,
                last_window |-> get_last_window(df),
                angle |-> 0, pred |-> 0]

\* rec_angle, rec_pred = recommend_angle(last_window, angle_idx)
RecommendAngle ==
    LET out == recommend_angle(ra.model, ra.last_window,
                               IndexOf(FEATURE_COLS, "panel_angle"))
    IN  /\ ra.pc = "call"
        /\ ra' = [ra EXCEPT !.pc = "done", !.angle = out.angle,
                            !.pred = out.pred,
                            !.last_window = out.last_window]
        /\ UNCHANGED <<pipeVars, device_seq, pushed, dfc, ens>>

NextAngle == RecommendAngle

SpecAngle == InitAngle /\ [][NextAngle]_vars

\* ------------------------------------ the daily forecaster on its own

\* the row the pipeline builds, the row of a client of /predict that names
\* the temperature in full, and a row without voltage and current
DailyRows ==
    UNION { { [ts |-> 1, device_id |-> "panel-01", voltage |-> v,
               ldr |-> Num(600), temp |-> Num(30), humidity |-> Num(50),
               panel_angle |-> Num(30), current |-> Num(1)],
              [voltage |-> v, ldr |-> Num(550), temperature |-> Num(28),
               humidity |-> Num(40), panel_angle |-> Num(45),
               current |-> Num(2)],
              [ldr |-> Num(600), temp |-> Num(41), humidity |-> Num(50),
               panel_angle |-> Num(30)] } :
            v \in {Num(12), Num(12) + 3456, Num(10) + 1} }

DailyFrames ==
    { [t \in 1..n |-> row] : n \in {1, MaxDfLen}, row \in DailyRows }

\* the weights of mean_voltage and max_voltage and their divisor: decaying,
\* averaging, the identity, a constant, growing, and weighted to the maximum
DailyCoeffs ==
    { <<9, 0, 10>>, <<1, 1, 3>>, <<1, 0, 1>>, <<0, 0, 1>>, <<3, 0, 2>>,
      <<1, 2, 4>> }

DailyModels ==
    { [a |-> k[1], b |-> k[2], den |-> k[3], c |-> c,
       mean |-> DailyScaler(mu, 1).mean, scale |-> DailyScaler(mu, 1).scale] :
      k \in DailyCoeffs, c \in {0, 7}, mu \in {0, Num(1)} }

InitDaily ==
    /\ Quiet
    /\ ra = Idle
    /\ ens = Idle
    /\ \E m \in DailyModels, df \in DailyFrames, h \in 0..MaxHorizon :
          dfc = [pc |-> "call", model |-> m, seq_df |-> df, horizon |-> h,
                 base |-> <<>>, forecasts |-> <<>>]

\* daily = run_daily_forecast(seq_df, horizon)
RunDailyForecast ==
    LET out == run_daily_forecast(dfc.model, dfc.seq_df, dfc.horizon)
    IN  /\ dfc.pc = "call"
        /\ dfc' = [dfc EXCEPT !.pc = IF out.raised THEN "raised" ELSE "done",
                              !.base = IF out.raised THEN <<>>
                                       ELSE <<DailyBase(dfc.seq_df)>>,
                              !.forecasts = out.forecasts]
        /\ UNCHANGED <<pipeVars, device_seq, pushed, ra, ens>>

NextDaily == RunDailyForecast

SpecDaily == InitDaily /\ [][NextDaily]_vars

\* ------------------------------------ the ensemble combiner on its own

\* a sample as the pipeline stores it, one that names its fields as the
\* combiner's docstring does, and one with the illumination only
EnsSamples ==
    { [ts |-> 1, device_id |-> "panel-01", voltage |-> Num(11),
       ldr |-> Num(600), temp |-> Num(30), humidity |-> Num(50),
       panel_angle |-> Num(30), current |-> Num(1)],
      [voltage |-> Num(12) + 3456, ldr |-> Num(550) + 77,
       temperature |-> Num(28), humidity |-> Num(40),
       panel_angle |-> Num(45)],
      [ldr |-> Num(700)] }

EnsLens == {0, 1, ENS_SEQ_LEN - 1, ENS_SEQ_LEN, MaxEnsLen}

\* device_seq: None, or a list of samples
EnsSeqs ==
    {<<>>} \cup { <<[i \in 1..n |-> s]>> : n \in EnsLens, s \in EnsSamples }

\* a backend: not given (None), one whose predict raises, and two that
\* answer, with outputs on and off the grid of three decimals
EnsBackends(biases) ==
    {<<>>}
      \cup {<<[raises |-> TRUE, bias |-> 0, wa |-> 0, peak |-> 0]>>}
      \cup { <<[raises |-> FALSE, bias |-> b, wa |-> 2, peak |-> Num(40)]>> :
             b \in biases }

InitEns ==
    /\ Quiet
    /\ ra = Idle
    /\ dfc = Idle
    /\ \E tf \in BOOLEAN, xgb \in BOOLEAN, device_seq_in \in EnsSeqs,
          rf_model \in EnsBackends({Num(9) + 11, Num(12)}),
          xgb_model \in EnsBackends({Num(10) + 5}),
          lstm_model \in EnsBackends({Num(13) + 3456}) :
          ens = [pc |-> "call", env |-> [tf |-> tf, xgb |-> xgb],
                 device_seq |-> device_seq_in, rf_model |-> rf_model,
                 xgb_model |-> xgb_model, lstm_model |-> lstm_model,
                 result |-> <<>>]

\* out = ensemble_predict(device_seq, rf_model, xgb_model, lstm_model)
EnsemblePredict ==
    /\ ens.pc = "call"
    /\ ens' = [ens EXCEPT
                 !.pc = "done",
                 !.result = ensemble_predict(ens.env, ens.device_seq,
                                             ens.rf_model, ens.xgb_model,
                                             ens.lstm_model)]
    /\ UNCHANGED <<pipeVars, device_seq, pushed, ra, dfc>>

NextEns == EnsemblePredict

SpecEns == InitEns /\ [][NextEns]_vars

\* =================================================================
\* The claims
\* =================================================================

FirstN(seq, n) == [i \in 1..Min2(n, Len(seq)) |-> seq[i]]

LastOf(seq) == seq[Len(seq)]

IsPrefix(a, b) == Len(a) <= Len(b) /\ \A i \in 1..Len(a) : a[i] = b[i]

\* ------------------------------------------------------------------ C8
\* C8: for every device and every sequence of pushes the device's buffer
\* holds at most SEQ_LEN samples: the last min(SEQ_LEN, k) of the k samples
\* pushed to that device, in the order they were pushed. So SEQ_LEN + 1
\* pushes leave SEQ_LEN samples with the oldest gone, and a push to one
\* device leaves every other device's buffer as it was; a device that was
\* never pushed to has no buffer.
C8_BufferHoldsLastN ==
    \A d \in Devices :
        LET h == pushed[d]
        IN  IF h = <<>>
            THEN d \notin DOMAIN device_seq
            ELSE /\ d \in DOMAIN device_seq
                 /\ Len(device_seq[d]) <= SEQ_LEN
                 /\ Len(device_seq[d]) = Min2(Len(h), SEQ_LEN)
                 /\ \A i \in 1..Len(device_seq[d]) :
                       device_seq[d][i] = h[Len(h) - Len(device_seq[d]) + i]

\* One device has had SEQ_LEN + 1 pushes and lost exactly its first sample,
\* the other holds a partly filled buffer.
C8_Witness ==
    /\ Len(pushed["panel-01"]) = SEQ_LEN + 1
    /\ "panel-01" \in DOMAIN device_seq
    /\ Len(device_seq["panel-01"]) = SEQ_LEN
    /\ device_seq["panel-01"][1].n = 2
    /\ device_seq["panel-01"][SEQ_LEN].n = SEQ_LEN + 1
    /\ Len(pushed["panel-02"]) = 3
    /\ "panel-02" \in DOMAIN device_seq
    /\ Len(device_seq["panel-02"]) = 3

\* ------------------------------------------------------------------ C9
\* The predictor's output on the caller's window with only the angle of the
\* last timestep replaced by b degrees.
C9_PredAt(b) ==
    LET w0 == get_last_window(ra.df)
        ai == IndexOf(FEATURE_COLS, "panel_angle")
        w  == [t \in 1..Len(w0) |->
                 [f \in 1..NFeat |->
                    IF t = Len(w0) /\ f = ai THEN Num(b) ELSE w0[t][f]]]
    IN  predict_voltage(ra.model, scale_window(ra.model, w))

\* C9: recommend_angle returns the smallest integer angle a in 0..90 that
\* maximizes the predictor's output on the window with only the angle of the
\* last timestep replaced by a, together with the prediction at that angle,
\* and leaves the caller's window as it was; a predictor with a single peak
\* at A gives A, a predictor constant in the angle gives 0.
C9_RecommendFirstMax ==
    ra.pc = "done" =>
        /\ ra.angle \in 0..MAX_ANGLE
        /\ \A b \in 0..MAX_ANGLE : C9_PredAt(b) <= C9_PredAt(ra.angle)
        /\ \A b \in 0..MAX_ANGLE : b < ra.angle => C9_PredAt(b) < C9_PredAt(ra.angle)
        /\ ra.pred = C9_PredAt(ra.angle)
        /\ ra.last_window = get_last_window(ra.df)
        /\ (ra.model.kind = "peak" => Num(ra.angle) = ra.model.A)
        /\ (ra.model.kind = "const" => ra.angle = 0)

\* A predictor that is flat on 27..47 degrees: the recommendation is 27,
\* although 47 does as well.
C9_Witness ==
    /\ ra.pc = "done"
    /\ ra.model.kind = "plateau"
    /\ ra.angle = 27
    /\ C9_PredAt(47) = C9_PredAt(27)
    /\ C9_PredAt(26) < C9_PredAt(27)
    /\ Len(ra.df) < ST_SEQ_LEN

\* ----------------------------------------------------------------- C10
C10_Shape ==
    /\ Len(dfc.forecasts) = dfc.horizon
    /\ \A d \in 1..Len(dfc.forecasts) : dfc.forecasts[d].day = d

\* The prediction for day d+1 when the snapshot's mean_voltage and
\* max_voltage both hold v and every other field is as on day 1.
C10_NextFrom(v) ==
    DailyPredict(dfc.model,
                 [DailyBase(dfc.seq_df) EXCEPT !["mean_voltage"] = v,
                                               !["max_voltage"] = v])

\* C10 as claimed: the value recorded for day d+1 is the predictor applied to
\* the snapshot that carries the value recorded for day d (taken as it is, or
\* rounded as every recorded value is), so that the recorded values reproduce
\* the recorded sequence.
C10_RecordedReproduces ==
    (dfc.pc = "done" /\ dfc.horizon >= 1) =>
        /\ C10_Shape
        /\ \A d \in 1..(Len(dfc.forecasts) - 1) :
              LET next == C10_NextFrom(dfc.forecasts[d].predicted_voltage)
              IN  dfc.forecasts[d + 1].predicted_voltage \in {next, Round3(next)}

\* The predictions themselves: day 1 from the day-1 snapshot, day d+1 from
\* the snapshot that carries day d's prediction unrounded.
C10_Raw(d) ==
    LET raw[k \in 1..d] ==
            IF k = 1 THEN DailyPredict(dfc.model, DailyBase(dfc.seq_df))
            ELSE C10_NextFrom(raw[k - 1])
    IN  raw[d]

\* C10 (amended): for every horizon H >= 1 the forecast has exactly H points
\* with day indices 1..H in order; the value recorded for day d is the
\* predictor's output for day d rounded to 3 decimals, and the output for day
\* d+1 is the predictor applied to the snapshot whose mean_voltage and
\* max_voltage are both the unrounded output for day d and whose every other
\* field equals the day-1 snapshot.
C10_ForecastFeedsBackRaw ==
    (dfc.pc = "done" /\ dfc.horizon >= 1) =>
        /\ C10_Shape
        /\ \A d \in 1..Len(dfc.forecasts) :
              dfc.forecasts[d].predicted_voltage = Round3(C10_Raw(d))

\* A full-horizon forecast in which a recorded value differs from the
\* prediction it rounds, and the next day's value is not what the recorded
\* one would give.
C10_Witness ==
    /\ dfc.pc = "done"
    /\ dfc.horizon = MaxHorizon
    /\ Len(dfc.forecasts) = MaxHorizon
    /\ \E d \in 1..(MaxHorizon - 1) :
          /\ dfc.forecasts[d].predicted_voltage # C10_Raw(d)
          /\ dfc.forecasts[d + 1].predicted_voltage #
                Round3(C10_NextFrom(dfc.forecasts[d].predicted_voltage))

\* ------------------------------------------------------------------ C1
Order ==
    <<"FETCH_WINDOW", "PREDICT_SHORT_TERM", "ACTUATE", "FORECAST_DAILY",
      "PERSIST">>

\* the steps whose failure reaches the except clause of run_ml_pipeline
Fatal == {"PREDICT_SHORT_TERM", "FORECAST_DAILY", "PERSIST"}

Has(seq, x) == \E i \in 1..Len(seq) : seq[i] = x

RunIds == 1..Len(runs)

\* C1 as claimed: the steps of a run are executed in the fixed order, and a
\* failure in any step leaves the run FAILED with the failing step as the
\* last step it executed.
C1_AnyFailureFails ==
    \A r \in RunIds :
        /\ IsPrefix(runs[r].steps, Order)
        /\ runs[r].errors # <<>> =>
              /\ runs[r].pc = "FAILED"
              /\ LastOf(runs[r].steps) = runs[r].errors[1]

\* C1 (amended): the steps of a run are executed in the fixed order
\* FETCH_WINDOW, PREDICT_SHORT_TERM, ACTUATE, FORECAST_DAILY, PERSIST, DONE; a
\* failure of PREDICT_SHORT_TERM, FORECAST_DAILY or PERSIST moves the run
\* directly to FAILED and no later step is executed; a failed send in ACTUATE
\* is caught and the run goes on to FORECAST_DAILY, and a failed store read
\* in FETCH_WINDOW gives an empty window, which ends the run as not enough
\* data.
C1_StepOrder ==
    \A r \in RunIds :
        LET run == runs[r]
            n   == Len(run.steps)
        IN  /\ IsPrefix(run.steps, Order)
            /\ run.pc \in {"FETCH_WINDOW", "PREDICT_SHORT_TERM", "ACTUATE",
                           "FORECAST_DAILY", "PERSIST"} =>
                  /\ n < Len(Order)
                  /\ Order[n + 1] = run.pc
            /\ run.pc \in {"PERSIST_LATEST", "DONE"} => run.steps = Order
            /\ run.pc = "DONE" =>
                  \A i \in 1..Len(run.errors) : run.errors[i] = "ACTUATE"
            /\ run.pc = "NOT_ENOUGH_DATA" => run.steps = <<"FETCH_WINDOW">>
            /\ run.pc = "FAILED" =>
                  /\ n > 0
                  /\ LastOf(run.steps) \in Fatal
                  /\ run.errors # <<>>
                  /\ LastOf(run.errors) = LastOf(run.steps)
            /\ \A i \in 1..Len(run.errors) :
                  /\ run.errors[i] \in Fatal =>
                        /\ run.pc = "FAILED"
                        /\ LastOf(run.steps) = run.errors[i]
                  /\ run.errors[i] = "ACTUATE" =>
                        /\ run.pc # "ACTUATE"
                        /\ run.pc = "FAILED" => LastOf(run.steps) # "ACTUATE"
                  /\ run.errors[i] = "FETCH_WINDOW" =>
                        run.pc = "NOT_ENOUGH_DATA"

\* One run is DONE although its send failed, another is FAILED in the daily
\* forecast, with PERSIST never executed.
C1_Witness ==
    \E r1, r2 \in RunIds :
        /\ runs[r1].pc = "DONE"
        /\ runs[r1].errors = <<"ACTUATE">>
        /\ runs[r2].pc = "FAILED"
        /\ LastOf(runs[r2].steps) = "FORECAST_DAILY"
        /\ ~Has(runs[r2].steps, "PERSIST")

\* ------------------------------------------------------------------ C2
\* C2: every ingestion call whose payload can be read is acknowledged with
\* success: no error of the store, the pipeline or the actuator reaches the
\* caller of POST /telemetry.
C2_IngestionAlwaysAcks ==
    (http.op = "telemetry" /\ http.cause # "payload") => http.status = "ok"

\* ------------------------------------------------------------------ C3
\* C3: without the store, a run for a device whose in-memory buffer held at
\* least 5 samples when the run fetched its window does not end as not enough
\* data: it goes on to the short-term prediction.
C3_InMemoryMode ==
    \A r \in RunIds :
        (/\ ~use_firebase
         /\ Has(runs[r].steps, "FETCH_WINDOW")
         /\ runs[r].mem_len >= MIN_WINDOW)
        => runs[r].pc # "NOT_ENOUGH_DATA"

\* ------------------------------------------------------------------ C4
\* C4: an ingestion whose payload has the required fields and lacks the
\* current and the temperature (the keys "current" and "temp") is acknowledged
\* with success, with or without their fallback keys "cur" and "temperature".
C4_PartialSampleAccepted ==
    (/\ http.op = "telemetry"
     /\ Required \subseteq http.keys
     /\ "current" \notin http.keys
     /\ "temp" \notin http.keys
     /\ http.cause # "store")
    => http.status = "ok"

\* ------------------------------------------------------------------ C5
Commands(r) == {i \in 1..Len(esp32) : esp32[i].run = r}

\* C5: a run whose fetched window has fewer than 5 samples ends at
\* FETCH_WINDOW as not enough data, which is not FAILED: it never enters
\* PREDICT_SHORT_TERM, sends no command and builds no record to persist; a
\* run whose window has 5 or more samples enters PREDICT_SHORT_TERM.
C5_MinimumWindow ==
    \A r \in RunIds :
        LET run == runs[r]
        IN  Has(run.steps, "FETCH_WINDOW") =>
              /\ Len(run.seq_df) < MIN_WINDOW =>
                    /\ run.pc = "NOT_ENOUGH_DATA"
                    /\ run.steps = <<"FETCH_WINDOW">>
                    /\ run.short_term = <<>>
                    /\ run.act = "none"
                    /\ Commands(r) = {}
                    /\ run.prediction = <<>>
              /\ Len(run.seq_df) >= MIN_WINDOW =>
                    \/ run.pc = "PREDICT_SHORT_TERM"
                    \/ Has(run.steps, "PREDICT_SHORT_TERM")

\* One run ended on a window of one sample, another went on with a window of
\* exactly 5.
C5_Witness ==
    \E r1, r2 \in RunIds :
        /\ runs[r1].pc = "NOT_ENOUGH_DATA"
        /\ Len(runs[r1].seq_df) = 1
        /\ Len(runs[r2].seq_df) = MIN_WINDOW
        /\ Has(runs[r2].steps, "PREDICT_SHORT_TERM")

\* ------------------------------------------------------------------ C6
\* The record a run builds from its window alone, with the timestamp ts.
C6_RecordOf(run, ts) ==
    BuildPrediction(run.device_id,
                    run_short_term_prediction(PipeModel, run.seq_df),
                    run_daily_forecast(PipeDailyModel, run.seq_df,
                                       HORIZON).forecasts,
                    ts)

\* C6: a run sends one command, carrying its recommended angle, after a
\* successful short-term prediction and none otherwise; a send that fails
\* delivers nothing and is not fatal: the run goes on to the daily forecast
\* and to persistence, and the record it builds is the one its window
\* determines, whether the send succeeded or not.
C6_OneCommandPerPrediction ==
    \A r \in RunIds :
        LET run == runs[r]
        IN  /\ run.short_term = <<>> => (run.act = "none" /\ Commands(r) = {})
            /\ ~Has(run.steps, "ACTUATE") =>
                  (run.act = "none" /\ Commands(r) = {})
            /\ Has(run.steps, "ACTUATE") =>
                  /\ run.short_term # <<>>
                  /\ run.act \in {"sent", "failed"}
                  /\ run.act = "failed" => Commands(r) = {}
                  /\ run.act = "sent" =>
                        /\ Cardinality(Commands(r)) = 1
                        /\ \A i \in Commands(r) :
                              esp32[i].command =
                                 [recommended_angle |->
                                      run.short_term[1].recommended_angle,
                                  confidence |-> CONFIDENCE]
                  /\ run.pc \in {"FORECAST_DAILY", "PERSIST",
                                 "PERSIST_LATEST", "DONE", "FAILED"}
                  /\ run.pc = "FAILED" => LastOf(run.steps) # "ACTUATE"
            /\ run.prediction # <<>> =>
                  run.prediction[1] = C6_RecordOf(run, run.prediction[1].ts)

\* Two runs on the same window, one whose send failed and one whose send
\* succeeded, are both DONE with records that differ in the timestamp only.
C6_Witness ==
    \E r1, r2 \in RunIds :
        /\ runs[r1].pc = "DONE" /\ runs[r1].act = "failed"
        /\ runs[r2].pc = "DONE" /\ runs[r2].act = "sent"
        /\ runs[r1].seq_df = runs[r2].seq_df
        /\ Commands(r1) = {} /\ Cardinality(Commands(r2)) = 1
        /\ runs[r1].prediction[1].short_term = runs[r2].prediction[1].short_term
        /\ runs[r1].prediction[1].daily_forecast =
              runs[r2].prediction[1].daily_forecast

EnsNames == <<"lstm", "xgboost", "rf">>

EnsErrKey(b) ==
    IF b = "lstm" THEN "lstm_error"
    ELSE IF b = "xgboost" THEN "xgb_error" ELSE "rf_error"

EnsModelOf(b) ==
    IF b = "lstm" THEN ens.lstm_model
    ELSE IF b = "xgboost" THEN ens.xgb_model ELSE ens.rf_model

EnsInLen == IF ens.device_seq = <<>> THEN 0 ELSE Len(ens.device_seq[1])

\* the backend is given, its runtime is there and the window is long enough
\* for it
EnsAttempted(b) ==
    /\ EnsModelOf(b) # <<>>
    /\ b = "lstm" => (ens.env.tf /\ EnsInLen >= ENS_SEQ_LEN)
    /\ b = "xgboost" => (ens.env.xgb /\ EnsInLen >= ENS_SEQ_LEN)

EnsSucceeded == {b \in {"lstm", "xgboost", "rf"} :
                    EnsAttempted(b) /\ ~EnsModelOf(b)[1].raises}

EnsRaised == {b \in {"lstm", "xgboost", "rf"} :
                 EnsAttempted(b) /\ EnsModelOf(b)[1].raises}

\* what the backend b answers on the input of the call
EnsOutput(b) ==
    LET arr == EnsSeqArr(ens.device_seq)
    IN  IF b = "lstm"
        THEN predict_sequence_lstm(ens.lstm_model[1],
                                   LastRows(arr[1], ENS_SEQ_LEN))
        ELSE IF b = "xgboost"
        THEN XgbModelPredict(ens.xgb_model[1], LastRows(arr[1], ENS_SEQ_LEN))
        ELSE RfModelPredict(ens.rf_model[1], EnsLast(arr))

EnsSumOf(S) ==
    (IF "lstm" \in S THEN EnsOutput("lstm") ELSE 0)
      + (IF "xgboost" \in S THEN EnsOutput("xgboost") ELSE 0)
      + (IF "rf" \in S THEN EnsOutput("rf") ELSE 0)

\* C11 as claimed: the combined prediction is the arithmetic mean of the
\* outputs of the backends that succeeded, one backend's output exactly when
\* it is the only one, and None when no backend succeeded.
C11_ExactMeanOfSucceeded ==
    ens.pc = "done" =>
        IF EnsSucceeded = {} THEN ens.result = <<>>
        ELSE /\ ens.result # <<>>
             /\ ens.result[1].pred_15m * Cardinality(EnsSucceeded) =
                   EnsSumOf(EnsSucceeded)

\* C11 (amended): the combined prediction is the arithmetic mean of the
\* outputs of exactly the backends that succeeded, rounded to 3 decimals: it
\* is on the grid of 0.001 and at most 0.0005 from the mean, so that with one
\* backend it is that backend's output rounded to 3 decimals; when no backend
\* succeeded the result is None and not a number.
C11_RoundedMeanOfSucceeded ==
    ens.pc = "done" =>
        IF EnsSucceeded = {} THEN ens.result = <<>>
        ELSE LET n == Cardinality(EnsSucceeded)
                 pred == ens.result[1].pred_15m
             IN  /\ ens.result # <<>>
                 /\ pred % 10 = 0
                 /\ 2 * Abs(pred * n - EnsSumOf(EnsSucceeded)) <= 10 * n
                 /\ ens.result[1].pred_30m = pred

\* The LSTM is the only backend that succeeded, the forest raised and the
\* XGB model is missing; the output is off the grid and the result is its
\* rounding.
C11_Witness ==
    /\ ens.pc = "done"
    /\ EnsSucceeded = {"lstm"}
    /\ "rf" \in EnsRaised
    /\ ens.xgb_model = <<>>
    /\ ens.result # <<>>
    /\ ens.result[1].pred_15m # EnsOutput("lstm")
    /\ ens.result[1].pred_15m = Round3(EnsOutput("lstm"))

\* ----------------------------------------------------------------- C12
\* C12 as claimed: every backend that did not contribute, whatever the
\* reason, has its entry in the diagnostics of the result.
C12_EveryFailureRecorded ==
    ens.pc = "done" =>
        \A b \in {"lstm", "xgboost", "rf"} :
            b \notin EnsSucceeded =>
                /\ ens.result # <<>>
                /\ EnsErrKey(b) \in ens.result[1].meta.errors

EnsListed == {ens.result[1].meta.models[i].name :
                 i \in 1..Len(ens.result[1].meta.models)}

\* C12 (amended): every backend is attempted independently and no failure
\* aborts the combination: there is a result exactly when some backend
\* succeeded, it lists exactly the backends that succeeded, each with its
\* output rounded to 3 decimals, in the order lstm, xgboost, rf, and they all
\* enter the mean. A backend that raised is recorded in the result's meta as
\* <name>_error; a backend whose model is missing, whose library is missing or
\* whose window is too short is skipped without a record, and a None result
\* carries no diagnostics.
C12_FailuresDoNotAbort ==
    ens.pc = "done" =>
        /\ (ens.result # <<>>) <=> (EnsSucceeded # {})
        /\ ens.result # <<>> =>
              LET meta == ens.result[1].meta
                  n == Cardinality(EnsSucceeded)
              IN  /\ meta.errors = {EnsErrKey(b) : b \in EnsRaised}
                  /\ EnsListed = EnsSucceeded
                  /\ Len(meta.models) = n
                  /\ \A i \in 1..Len(meta.models) :
                        meta.models[i].p = Round3(EnsOutput(meta.models[i].name))
                  /\ \A i, j \in 1..Len(meta.models) :
                        i < j =>
                           \E k, l \in 1..3 :
                              /\ k < l
                              /\ EnsNames[k] = meta.models[i].name
                              /\ EnsNames[l] = meta.models[j].name
                  /\ 2 * Abs(ens.result[1].pred_15m * n
                               - EnsSumOf(EnsSucceeded)) <= 10 * n

\* The LSTM raised on a full window, the XGB model is missing, and the forest
\* alone gives the result, which records the LSTM's error only.
C12_Witness ==
    /\ ens.pc = "done"
    /\ "lstm" \in EnsRaised
    /\ ens.xgb_model = <<>>
    /\ EnsSucceeded = {"rf"}
    /\ ens.result # <<>>
    /\ ens.result[1].meta.errors = {"lstm_error"}
    /\ ens.result[1].meta.models =
          <<[name |-> "rf", p |-> Round3(EnsOutput("rf"))]>>

\* ----------------------------------------------------------------- C13
\* the step in which run r writes its record under predictions/<device>/latest
C13_PersistStep(r) ==
    /\ runs[r].pc = "PERSIST"
    /\ runs'[r].pc = "PERSIST_LATEST"

\* C13: runs of one device are not mutually excluded and the later write
\* wins: every persist step of a run replaces the device's stored latest
\* record by that run's record, whatever record was there and whichever of
\* the two is newer, no other step changes it, and the store keeps one record
\* per device; so once the runs have finished the stored record is that of
\* the run whose persist step came last.
C13_LaterWriteWins ==
    [][/\ \A r \in RunIds :
             C13_PersistStep(r) =>
                pred_store' = [pred_store EXCEPT ![runs[r].device_id] =
                                                     runs[r].prediction]
       /\ (\A r \in RunIds : ~C13_PersistStep(r)) => pred_store' = pred_store
       /\ \A d \in Devices : Len(pred_store'[d]) <= 1]_vars

\* Two runs of one device overlapped and both are DONE: the one that built
\* its record first persisted it last, and its record is the stored one; the
\* other's, with the later timestamp, is gone.
C13_Witness ==
    \E r1, r2 \in RunIds :
        /\ r1 # r2
        /\ runs[r1].device_id = runs[r2].device_id
        /\ runs[r1].pc = "DONE" /\ runs[r2].pc = "DONE"
        /\ runs[r1].prediction[1].ts < runs[r2].prediction[1].ts
        /\ pred_store[runs[r1].device_id] = runs[r1].prediction
        /\ pred_store[runs[r1].device_id] # runs[r2].prediction

\* ----------------------------------------------------------------- C14
\* the value a sample carries for the field, or the documented default
C14_Field(last, key, dflt) == IF key \in DOMAIN last THEN last[key] ELSE dflt

\* the temperature of a sample: the pipeline stores it as temp, a client may
\* name it temperature
C14_Temperature(last, dflt) ==
    IF "temp" \in DOMAIN last THEN last["temp"]
    ELSE C14_Field(last, "temperature", dflt)

\* C14: the daily snapshot takes every field from the last sample of the
\* window: the illumination, the temperature, the humidity, the tilt angle,
\* the voltage and the current are the sample's values where it carries them
\* and the defaults 600, 30, 50, 30, 12 and 1.2 where it does not, with
\* std_angle = 2 and samples = the window length.
C14_SnapshotFromLastSample ==
    dfc.pc = "done" =>
        LET last == dfc.seq_df[Len(dfc.seq_df)]
            b == dfc.base[1]
        IN  /\ b.avg_ldr = C14_Field(last, "ldr", Num(600))
            /\ b.max_ldr = C14_Field(last, "ldr", Num(600))
            /\ b.avg_temp = C14_Temperature(last, Num(30))
            /\ b.avg_humidity = C14_Field(last, "humidity", Num(50))
            /\ b.avg_angle = C14_Field(last, "panel_angle", Num(30))
            /\ b.mean_voltage = C14_Field(last, "voltage", Num(12))
            /\ b.max_voltage = C14_Field(last, "voltage", Num(12))
            /\ b.mean_current = C14_Field(last, "current", (12 * UNIT) \div 10)
            /\ b.std_angle = Num(2)
            /\ b.samples = Num(Len(dfc.seq_df))

\* ----------------------------------------------------------------- C15
\* every run of the device has ended, and none of them failed
C15_AllFinished(d) ==
    /\ \E r \in RunIds : runs[r].device_id = d
    /\ \A r \in RunIds :
          runs[r].device_id = d => runs[r].pc \in {"DONE", "NOT_ENOUGH_DATA"}

\* C15: once the runs of a device have finished and both copies of its latest
\* prediction are there, predictions/<device>/latest and
\* latest/<device>/prediction hold the same record.
C15_CopiesAgree ==
    \A d \in Devices :
        (/\ C15_AllFinished(d)
         /\ pred_store[d] # <<>>
         /\ latest_store[d].prediction # <<>>)
        => pred_store[d] = latest_store[d].prediction

\* ----------------------------------------------------------------- C16
\* C16: the record of a run that ended FAILED is in neither copy of the
\* device's latest prediction.
C16_FailedRunInvisible ==
    \A r \in RunIds :
        (runs[r].pc = "FAILED" /\ runs[r].prediction # <<>>) =>
            /\ pred_store[runs[r].device_id] # runs[r].prediction
            /\ latest_store[runs[r].device_id].prediction # runs[r].prediction

\* ----------------------------------------------------------------- C17
\* C17: an ingestion leaves every stored copy of every device's latest
\* prediction as it was.
C17_IngestionKeepsPrediction ==
    [][calls' # calls =>
          /\ pred_store' = pred_store
          /\ \A d \in Devices :
                latest_store'[d].prediction = latest_store[d].prediction]_vars

====
